---- MODULE Spec2Model ----
(***************************************************************************)
(* Roster analysis (streamlit_app.py): the grid normalizer process_file,   *)
(* the session store (st.session_state) and the five page handlers.        *)
(*                                                                         *)
(* A cell of the spreadsheet is a string; the empty string is a blank cell *)
(* (pandas NaN).  A date token "Mon 30-Dec" is the record                  *)
(* [wd |-> "Mon", d |-> 30, mon |-> "Dec"]; a calendar date is             *)
(* [y, m, d]; NaT is the date with y = 0.                                  *)
(***************************************************************************)
EXTENDS Integers, Sequences, FiniteSets, TLC

VARIABLES
    session_state,  \* st.session_state: the keys "df_melted" and "admin_config", when set
    env,            \* outside the program: the roster files by name, and today's date
    last,           \* the last script run: the page, its inputs and what it rendered
    history         \* what the user has done so far to the admin config

vars == <<session_state, env, last, history>>

-----------------------------------------------------------------------------
(* Calendar arithmetic, as datetime / pandas.Timestamp compute it.         *)

Blank == ""
BlankToken == [wd |-> "", d |-> 0, mon |-> ""]
NaT == [y |-> 0, m |-> 0, d |-> 0]

WeekdayAbbr == <<"Mon", "Tue", "Wed", "Thu", "Fri", "Sat", "Sun">>
MonthAbbr == <<"Jan", "Feb", "Mar", "Apr", "May", "Jun",
               "Jul", "Aug", "Sep", "Oct", "Nov", "Dec">>

IsLeap(y) == (y % 4 = 0) /\ ((y % 100 # 0) \/ (y % 400 = 0))

DaysInMonth(y, m) ==
    IF m = 2 THEN (IF IsLeap(y) THEN 29 ELSE 28)
    ELSE IF m \in {4, 6, 9, 11} THEN 30 ELSE 31

RECURSIVE DaysBeforeMonth(_, _)
DaysBeforeMonth(y, m) ==
    IF m <= 1 THEN 0 ELSE DaysBeforeMonth(y, m - 1) + DaysInMonth(y, m - 1)

\* proleptic Gregorian ordinal: 0001-01-01 is day 1
Ordinal(date) ==
    LET p == date.y - 1
    IN  p * 365 + (p \div 4) - (p \div 100) + (p \div 400)
          + DaysBeforeMonth(date.y, date.m) + date.d

\* Timestamp.weekday(): Monday is 0, Sunday is 6
weekday(date) == (Ordinal(date) + 6) % 7

\* pd.to_datetime(token [+ "-" + year], format='%a %d-%b[-%Y]', errors='coerce'):
\* the weekday name must be a weekday name but is not compared with the date;
\* without %Y the year is 1900
to_datetime(tok, year) ==
    IF /\ \E w \in 1..7 : WeekdayAbbr[w] = tok.wd
       /\ \E k \in 1..12 : MonthAbbr[k] = tok.mon
    THEN LET k == CHOOSE k \in 1..12 : MonthAbbr[k] = tok.mon
         IN  IF tok.d >= 1 /\ tok.d <= DaysInMonth(year, k)
             THEN [y |-> year, m |-> k, d |-> tok.d]
             ELSE NaT
    ELSE NaT

\* Timestamp.strftime('%a %d-%b'): the weekday is the one of the date itself
strftime(date) ==
    [wd |-> WeekdayAbbr[weekday(date) + 1], d |-> date.d, mon |-> MonthAbbr[date.m]]

-----------------------------------------------------------------------------
(* process_file                                                            *)

\* the exclusion list without the second spelling of OFF
excluded_shifts_upper == {"OFF", "RL SMO", "FL SMO", "SL", "PDL SMO"}

excluded_shifts == {"OFF", "Off", "RL SMO", "FL SMO", "SL", "PDL SMO"}

StartYear == 2024
RolloverYear == 2025
ParseYear == 1900

IsNA(c) == c = Blank

NumRows(src) == Len(src.names)
NumCols(src) == Len(src.dates)

\* column j of df.iloc[3:]: column 0 holds the names, column j >= 1 the shift cells
ColumnValues(src, j) ==
    IF j = 0 THEN src.names ELSE [i \in 1..NumRows(src) |-> src.cells[i][j]]

\* df_cleaned.dropna(axis=1, how='all'): the columns that keep a non-blank cell
KeptColumns(src) ==
    SelectSeq([k \in 1..(NumCols(src) + 1) |-> k - 1],
              LAMBDA j : \E i \in 1..NumRows(src) : ~IsNA(ColumnValues(src, j)[i]))

\* df.iloc[2, 1:].dropna()
date_strings(src) == SelectSeq(src.dates, LAMBDA t : t # BlankToken)

\* the loop over date_strings; NaT.strftime raises
RECURSIVE DateLoop(_, _, _, _)
DateLoop(ds, i, corrected_dates, current_year) ==
    IF i > Len(ds) THEN [ok |-> TRUE, dates |-> corrected_dates]
    ELSE
      LET parsed_date == to_datetime(ds[i], ParseYear)
          year == IF /\ corrected_dates # <<>>
                     /\ parsed_date.m = 1
                     /\ corrected_dates[Len(corrected_dates)].m = 12
                  THEN RolloverYear ELSE current_year
      IN  IF parsed_date = NaT THEN [ok |-> FALSE, dates |-> <<>>]
          ELSE DateLoop(ds, i + 1,
                        Append(corrected_dates, to_datetime(strftime(parsed_date), year)),
                        year)

corrected_dates(ds) == DateLoop(ds, 1, <<>>, StartYear)

\* df_cleaned.melt(id_vars=["Name"], var_name="Date", value_name="Shift") after
\* df_cleaned.columns = ["Name"] + list(date_series): labels go to the kept
\* columns by position; the frame is unpivoted column by column
melt(src, kept, dates) ==
    LET n == NumRows(src)
        name == ColumnValues(src, kept[1])
    IN  [k \in 1..((Len(kept) - 1) * n) |->
            LET p == 2 + ((k - 1) \div n)
                i == 1 + ((k - 1) % n)
            IN  [Name |-> name[i], Date |-> dates[p - 1],
                 Shift |-> ColumnValues(src, kept[p])[i]]]

Failed == [ok |-> FALSE, df |-> <<>>]

process_file(src) ==
    IF ~src.readable THEN Failed
    ELSE
      LET kept == KeptColumns(src)
          cd == corrected_dates(date_strings(src))
      IN  IF ~cd.ok THEN Failed
          ELSE IF Len(kept) # 1 + Len(cd.dates) THEN Failed
          ELSE
            LET df_melted == melt(src, kept, cd.dates)
                dropped == SelectSeq(df_melted, LAMBDA r : ~IsNA(r.Shift))
            IN  [ok |-> TRUE,
                 df |-> SelectSeq(dropped, LAMBDA r : r.Shift \notin excluded_shifts)]

-----------------------------------------------------------------------------
(* st.session_state and the JSON text of a configuration                   *)

None == [none |-> TRUE]

Has(s, k) == k \in DOMAIN s
Put(s, k, v) == [j \in (DOMAIN s) \cup {k} |-> IF j = k THEN v ELSE s[j]]
Range(f) == {f[x] : x \in DOMAIN f}

DigitChar == <<"0", "1", "2", "3", "4", "5", "6", "7", "8", "9">>

RECURSIVE Digits(_)
Digits(n) ==
    IF n < 10 THEN <<DigitChar[n + 1]>>
    ELSE Append(Digits(n \div 10), DigitChar[(n % 10) + 1])

\* json.dumps of an int
IntText(n) == IF n < 0 THEN <<"-">> \o Digits(-n) ELSE Digits(n)

RECURSIVE DigitsValue(_, _)
DigitsValue(t, acc) ==
    IF t = <<>> THEN acc
    ELSE DigitsValue(Tail(t),
                     acc * 10 + (CHOOSE v \in 0..9 : DigitChar[v + 1] = Head(t)))

\* json.load of a number
TextInt(t) == IF Head(t) = "-" THEN -DigitsValue(Tail(t), 0) ELSE DigitsValue(t, 0)

\* the shift codes of the model in Python's string order (sorted)
ShiftOrder == <<"CST", "FL SMO", "HB AM EDSTTA", "HB IC AM", "MIC", "OFF", "Off",
                "PDL SMO", "RL SMO", "SL">>
sorted(S) == SelectSeq(ShiftOrder, LAMBDA s : s \in S)

\* json.dumps(admin_config, indent=4): the members in the dict's order, which is
\* the order admin_config_page inserted them in, sorted(unique shifts)
json_dumps(config) ==
    LET keys == sorted(DOMAIN config)
    IN  [valid |-> TRUE,
         members |-> [i \in 1..Len(keys) |->
                        [key |-> keys[i], text |-> IntText(config[keys[i]])]]]

\* json.load(config_file) of a well-formed object: a later member replaces an
\* earlier one with the same key
json_load(file) ==
    LET mem == file.members
        keys == {mem[i].key : i \in 1..Len(mem)}
        at(k) == CHOOSE i \in 1..Len(mem) :
                    /\ mem[i].key = k
                    /\ \A j \in (i + 1)..Len(mem) : mem[j].key # k
    IN  [k \in keys |-> TextInt(mem[at(k)].text)]

-----------------------------------------------------------------------------
(* PAGE 1: upload_page                                                     *)

\* a URL is the sequence of its parts between slashes
DriveUrl(id) == <<"https:", "", "drive.google.com", "file", "d", id, "view?usp=sharing">>
OtherUrl == <<"https:", "", "example.com", "roster.xlsx">>
EmptyUrl == <<>>

\* shareable_url.split('/d/')[1].split('/')[0]; None on IndexError
convert_to_direct_url(shareable_url) ==
    LET at == {i \in 2..(Len(shareable_url) - 1) : shareable_url[i] = "d"}
    IN  IF at = {} THEN None
        ELSE LET i == CHOOSE i \in at : \A j \in at : i <= j
             IN  [url |-> <<"https:", "", "drive.google.com", "uc?export=download&id=">>,
                  id |-> shareable_url[i + 1]]

Unreadable == [readable |-> FALSE, dates |-> <<>>, names |-> <<>>, cells |-> <<>>]

\* what pd.ExcelFile(download_url) reads: the file Google Drive keeps under the id
Download(direct) ==
    IF direct.id \in DOMAIN env.files THEN env.files[direct.id] ELSE Unreadable

\* the record set stored whatever process_file did
publish_unchecked(s, source) == Put(s, "df_melted", process_file(source).df)

\* a load that starts the session afresh
publish_fresh(s, source) ==
    LET r == process_file(source)
    IN  IF r.ok THEN [df_melted |-> r.df] ELSE s

\* df_melted = process_file(source); st.session_state["df_melted"] = df_melted:
\* the assignment is reached only when process_file has returned
publish(s, source) ==
    LET r == process_file(source)
    IN  IF r.ok THEN Put(s, "df_melted", r.df) ELSE s

\* the content of the file the uploader hands over
Content(uploaded_file) == env.files[uploaded_file.name]

upload_page(config_file, uploaded_file, clicked, gdrive_link) ==
    LET imported == config_file # None /\ config_file.valid
        s1 == IF imported
              THEN Put(session_state, "admin_config", json_load(config_file))
              ELSE session_state
        \* an exception of process_file ends the script run here
        s2 == IF uploaded_file = None THEN s1 ELSE publish(s1, Content(uploaded_file))
        manual == IF uploaded_file = None THEN "none"
                  ELSE IF process_file(Content(uploaded_file)).ok THEN "ok" ELSE "raised"
        download_url == convert_to_direct_url(gdrive_link)
        gdrive == IF manual = "raised" \/ ~clicked THEN "none"
                  ELSE IF gdrive_link = EmptyUrl THEN "no url"
                  ELSE IF download_url = None THEN "invalid url"
                  ELSE IF process_file(Download(download_url)).ok THEN "ok"
                  ELSE "error"
        s3 == IF gdrive \in {"ok", "error"} THEN publish(s2, Download(download_url))
              ELSE s2
    IN  /\ session_state' = s3
        /\ last' = [page |-> "Upload File",
                    config_file |-> config_file, uploaded_file |-> uploaded_file,
                    clicked |-> clicked, gdrive_link |-> gdrive_link,
                    imported |-> imported, manual |-> manual, gdrive |-> gdrive]
        /\ history' = [history EXCEPT !.imported = @ \/ imported]
        /\ UNCHANGED env

-----------------------------------------------------------------------------
(* Arithmetic of the aggregates: exact fractions [num, den] in lowest terms *)
(* stand for the floats; NaN is the fraction with den = 0.                  *)

RECURSIVE GCD(_, _)
GCD(a, b) == IF b = 0 THEN a ELSE GCD(b, a % b)

Abs(n) == IF n < 0 THEN -n ELSE n

NaN == [num |-> 0, den |-> 0]

\* n / d as a float division does it: 0/0 is NaN (d is never negative here)
Rat(n, d) ==
    IF d = 0 THEN NaN
    ELSE LET g == GCD(Abs(n), d) IN [num |-> n \div g, den |-> d \div g]

RatTimes(r, k) == Rat(r.num * k, r.den)
RatDiv(r, q) == Rat(r.num * q.den, r.den * q.num)
RatAdd(r, q) == Rat(r.num * q.den + q.num * r.den, r.den * q.den)

RECURSIVE SumSeq(_)
SumSeq(q) == IF q = <<>> THEN 0 ELSE Head(q) + SumSeq(Tail(q))

RECURSIVE SortedValues(_, _)
SortedValues(S, f) ==
    IF S = {} THEN <<>>
    ELSE LET x == CHOOSE x \in S : \A y \in S : f[x] <= f[y]
         IN  <<f[x]>> \o SortedValues(S \ {x}, f)

\* Series.median() of the values f[x], x in S
median(S, f) ==
    LET v == SortedValues(S, f)
        n == Len(v)
    IN  IF n = 0 THEN NaN
        ELSE IF n % 2 = 1 THEN Rat(v[(n + 1) \div 2], 1)
        ELSE Rat(v[n \div 2] + v[(n \div 2) + 1], 2)


Names(df) == {df[i].Name : i \in 1..Len(df)}
Shifts(df) == {df[i].Shift : i \in 1..Len(df)}

\* df_melted[(df_melted["Date"] >= start_date) & (df_melted["Date"] <= end_date)]
filter_dates(df, start_date, end_date) ==
    SelectSeq(df, LAMBDA r : /\ Ordinal(r.Date) >= Ordinal(start_date)
                             /\ Ordinal(r.Date) <= Ordinal(end_date))

\* dict.get(key, default)
get(d, key, default) == IF key \in DOMAIN d THEN d[key] ELSE default

is_weekend(date) == weekday(date) \in {5, 6}

-----------------------------------------------------------------------------
(* PAGE 2: main_data_page                                                  *)

NoDataFrame(page) == [page |-> page, error |-> TRUE]

\* df_person["Shift"].value_counts(), as a share of the person's total when
\* percentages are shown
shift_counts(df_person, show_percentage) ==
    [s \in Shifts(df_person) |->
        IF show_percentage
        THEN RatTimes(Rat(Len(SelectSeq(df_person, LAMBDA r : r.Shift = s)), Len(df_person)), 100)
        ELSE Rat(Len(SelectSeq(df_person, LAMBDA r : r.Shift = s)), 1)]

RECURSIVE RatSum(_, _)
RatSum(f, S) ==
    IF S = {} THEN Rat(0, 1)
    ELSE LET s == CHOOSE s \in S : TRUE IN RatAdd(f[s], RatSum(f, S \ {s}))

\* (median_shift_counts / median_shift_counts.sum()) * 100
share_of(medians, total) ==
    [s \in DOMAIN medians |-> RatTimes(RatDiv(medians[s], total), 100)]

\* all_shifts_data.groupby("Name")["Shift"].value_counts().unstack(fill_value=0)
\*     .median(axis=0): the table has a row per name and a column per shift of
\* all_shifts_data, a missing pair counts 0
medians_of(all_shifts_data) ==
    [s \in Shifts(all_shifts_data) |->
        median(Names(all_shifts_data),
               [n \in Names(all_shifts_data) |->
                   Len(SelectSeq(all_shifts_data, LAMBDA r : r.Name = n /\ r.Shift = s))])]

median_shift_counts(medians, show_percentage) ==
    IF show_percentage THEN share_of(medians, RatSum(medians, DOMAIN medians))
    ELSE medians

\* Series.reindex(all_shifts, fill_value=0)
reindex(f, all_shifts) == [s \in all_shifts |-> get(f, s, Rat(0, 1))]

\* the two bars of the selected person: <<weekdays, weekends>>
weekday_weekend(total_shifts, weekend_shifts, show_percentage) ==
    IF show_percentage /\ total_shifts > 0
    THEN <<RatTimes(Rat(total_shifts - weekend_shifts, total_shifts), 100),
           RatTimes(Rat(weekend_shifts, total_shifts), 100)>>
    ELSE <<Rat(total_shifts - weekend_shifts, 1), Rat(weekend_shifts, 1)>>

\* the two median bars over all staff: <<weekdays, weekends>>
median_weekday_weekend(median_weekday, median_weekend, median_total, show_percentage) ==
    IF show_percentage /\ median_total.num > 0
    THEN <<RatTimes(RatDiv(median_weekday, median_total), 100),
           RatTimes(RatDiv(median_weekend, median_total), 100)>>
    ELSE <<median_weekday, median_weekend>>

median_values(df_filtered, show_percentage) ==
    median_weekday_weekend(
        median(Names(df_filtered),
               [n \in Names(df_filtered) |->
                   Len(SelectSeq(df_filtered, LAMBDA r : r.Name = n /\ ~is_weekend(r.Date)))]),
        median(Names(df_filtered),
               [n \in Names(df_filtered) |->
                   Len(SelectSeq(df_filtered, LAMBDA r : r.Name = n /\ is_weekend(r.Date)))]),
        RatAdd(median(Names(df_filtered),
                      [n \in Names(df_filtered) |->
                          Len(SelectSeq(df_filtered, LAMBDA r : r.Name = n /\ is_weekend(r.Date)))]),
               median(Names(df_filtered),
                      [n \in Names(df_filtered) |->
                          Len(SelectSeq(df_filtered, LAMBDA r : r.Name = n /\ ~is_weekend(r.Date)))])),
        show_percentage)

\* the charts, once the frames are cut
main_data_charts(df_filtered, df_person, person_counts, median_counts, show_percentage, show_median) ==
    [shift_counts |->
        reindex(person_counts, (DOMAIN person_counts) \cup (DOMAIN median_counts)),
     median_shift_counts |->
        reindex(median_counts, (DOMAIN person_counts) \cup (DOMAIN median_counts)),
     selected_values |->
        weekday_weekend(Len(df_person),
                        Len(SelectSeq(df_person, LAMBDA r : is_weekend(r.Date))),
                        show_percentage),
     median_values |->
        IF show_median THEN median_values(df_filtered, show_percentage) ELSE <<>>]

\* the frames of the page: df_person and all_shifts_data
main_data_frames(df_filtered, selected_name, active_shifts, show_percentage, show_median) ==
    main_data_charts(
        df_filtered,
        SelectSeq(df_filtered,
                  LAMBDA r : r.Name = selected_name /\ r.Shift \in active_shifts),
        shift_counts(SelectSeq(df_filtered,
                        LAMBDA r : r.Name = selected_name /\ r.Shift \in active_shifts),
                     show_percentage),
        median_shift_counts(
            medians_of(SelectSeq(df_filtered, LAMBDA r : r.Shift \in active_shifts)),
            show_percentage),
        show_percentage, show_median)

\* unchecked: the shift checkboxes of the selected person the user has cleared
main_data_page(start_date, end_date, selected_name, unchecked, show_percentage, show_median) ==
    IF ~Has(session_state, "df_melted")
    THEN /\ last' = NoDataFrame("Main Data")
         /\ UNCHANGED <<session_state, env, history>>
    ELSE
      LET df_melted == session_state["df_melted"]
          df_filtered == filter_dates(df_melted, start_date, end_date)
          shift_options ==
              Shifts(SelectSeq(df_filtered, LAMBDA r : r.Name = selected_name))
          active_shifts == shift_options \ unchecked
      IN  /\ last' = [page |-> "Main Data", error |-> FALSE,
                      start_date |-> start_date, end_date |-> end_date,
                      selected_name |-> selected_name,
                      active_shifts |-> active_shifts,
                      show_percentage |-> show_percentage,
                      show_median |-> show_median,
                      charts |-> main_data_frames(df_filtered, selected_name,
                                                  active_shifts, show_percentage,
                                                  show_median)]
          /\ UNCHANGED <<session_state, env, history>>

-----------------------------------------------------------------------------
(* PAGE 3: admin_config_page                                               *)

default_values ==
    [s \in {"CST", "HB IC PM", "HB 21C PM", "MIC", "HB AM EDSTTA", "HB IC AM"} |->
        IF s = "CST" THEN 10
        ELSE IF s \in {"HB IC PM", "HB 21C PM"} THEN 3
        ELSE 5]

\* the export without the shifts that count no admin hours
config_json_enabled(admin_config) ==
    json_dumps([s \in {k \in DOMAIN admin_config : admin_config[k] # 0} |->
                   admin_config[s]])

\* config_json = json.dumps(admin_config, indent=4), the data of the download button
config_json(admin_config) == json_dumps(admin_config)

\* include and hours are the values of the checkbox and of the number input of
\* each shift of the record set, as the user has left them
admin_config_page(include, hours) ==
    IF ~Has(session_state, "df_melted")
    THEN /\ last' = NoDataFrame("Admin Configuration")
         /\ UNCHANGED <<session_state, env, history>>
    ELSE
      LET unique_shifts == Shifts(session_state["df_melted"])
          admin_config == [shift \in unique_shifts |->
                              IF include[shift] THEN hours[shift] ELSE 0]
          changed == \E shift \in unique_shifts :
                        \/ ~include[shift]
                        \/ hours[shift] # get(default_values, shift, 0)
      IN  /\ session_state' = Put(session_state, "admin_config", admin_config)
          /\ last' = [page |-> "Admin Configuration", error |-> FALSE,
                      admin_config |-> admin_config,
                      config_json |-> config_json(admin_config)]
          /\ history' = [history EXCEPT !.edited = @ \/ changed]
          /\ UNCHANGED env

-----------------------------------------------------------------------------
(* PAGE 4: admin_time_page                                                 *)

\* the gate one day late: Saturday counts as a weekday
time_get_admin_hours_sat(row, admin_config) ==
    LET shift == row.Shift
    IN  IF shift \in {"HB AM EDSTTA", "HB IC AM"}
        THEN (IF weekday(row.Date) < 6 THEN get(admin_config, shift, 0) ELSE 0)
        ELSE get(admin_config, shift, 0)

\* admin_time_page.get_admin_hours
time_get_admin_hours(row, admin_config) ==
    LET shift == row.Shift
    IN  IF shift \in {"HB AM EDSTTA", "HB IC AM"}
        THEN (IF weekday(row.Date) < 5 THEN get(admin_config, shift, 0) ELSE 0)
        ELSE get(admin_config, shift, 0)

\* (total_admin / (total_shifts * 10)) * 100 if total_shifts > 0 else 0
admin_percentage(total_admin, total_shifts) ==
    IF total_shifts > 0
    THEN RatTimes(Rat(total_admin, total_shifts * 10), 100)
    ELSE Rat(0, 1)

admin_time_page(start_date, end_date, selected_name) ==
    IF ~Has(session_state, "df_melted")
    THEN /\ last' = NoDataFrame("Administrative Time")
         /\ UNCHANGED <<session_state, env, history>>
    ELSE
      LET admin_config == get(session_state, "admin_config", <<>>)
          df_filtered == filter_dates(session_state["df_melted"], start_date, end_date)
          AdminHours == [i \in 1..Len(df_filtered) |->
                            time_get_admin_hours(df_filtered[i], admin_config)]
          staff == {i \in 1..Len(df_filtered) : df_filtered[i].Name = selected_name}
          df_staff == SelectSeq([i \in 1..Len(df_filtered) |-> i],
                                LAMBDA i : i \in staff)
      IN  /\ last' = [page |-> "Administrative Time", error |-> FALSE,
                      start_date |-> start_date, end_date |-> end_date,
                      selected_name |-> selected_name,
                      AdminHours |-> AdminHours,
                      overall_admin_percentage |->
                          admin_percentage(SumSeq(AdminHours), Len(df_filtered)),
                      staff_admin_percentage |->
                          admin_percentage(
                              SumSeq([k \in 1..Len(df_staff) |-> AdminHours[df_staff[k]]]),
                              Len(df_staff))]
          /\ UNCHANGED <<session_state, env, history>>

-----------------------------------------------------------------------------
(* PAGE 5: admin_comparison_page                                           *)

\* admin_comparison_page.get_admin_hours
cmp_get_admin_hours(row, admin_config) ==
    LET shift == row.Shift
    IN  IF shift \in {"HB AM EDSTTA", "HB IC AM"}
        THEN (IF weekday(row.Date) < 5 THEN get(admin_config, shift, 0) ELSE 0)
        ELSE get(admin_config, shift, 0)

\* the percentage without the ten hours of a shift
group_percentage_per_shift(total_admin, total_shifts) ==
    IF total_shifts > 0
    THEN RatTimes(Rat(total_admin, total_shifts), 100)
    ELSE Rat(0, 1)

\* percentage = (total_admin / (total_shifts * 10)) * 100 if total_shifts > 0 else 0
group_percentage(total_admin, total_shifts) ==
    IF total_shifts > 0
    THEN RatTimes(Rat(total_admin, total_shifts * 10), 100)
    ELSE Rat(0, 1)

admin_comparison_page(start_date, end_date, selected_users) ==
    IF ~Has(session_state, "df_melted")
    THEN /\ last' = NoDataFrame("Admin Comparison")
         /\ UNCHANGED <<session_state, env, history>>
    ELSE
      LET admin_config == get(session_state, "admin_config", <<>>)
          df_filtered == filter_dates(session_state["df_melted"], start_date, end_date)
          AdminHours == [i \in 1..Len(df_filtered) |->
                            cmp_get_admin_hours(df_filtered[i], admin_config)]
          group(name) == SelectSeq([i \in 1..Len(df_filtered) |-> i],
                                   LAMBDA i : df_filtered[i].Name = name)
          admin_percentages ==
              [name \in Names(df_filtered) |->
                  group_percentage(
                      SumSeq([k \in 1..Len(group(name)) |-> AdminHours[group(name)[k]]]),
                      Len(group(name)))]
      IN  /\ last' = [page |-> "Admin Comparison", error |-> FALSE,
                      start_date |-> start_date, end_date |-> end_date,
                      AdminHours |-> AdminHours,
                      admin_percentages |-> admin_percentages,
                      admin_df |-> [name \in (DOMAIN admin_percentages) \cap selected_users |->
                                       admin_percentages[name]]]
          /\ UNCHANGED <<session_state, env, history>>

-----------------------------------------------------------------------------
(* The inputs: roster files, links and dates                               *)

MaxCols == 2        \* date columns of a roster grid
MaxTokens == 4      \* date columns of a grid that spans a year boundary

Tok(wd, d, mon) == [wd |-> wd, d |-> d, mon |-> mon]
Day(y, m, d) == [y |-> y, m |-> m, d |-> d]

StaffNames == <<"Alice", "Bob">>

\* the grids with the given names in column 0 and the given date row
GridsOn(names, dates, cellvals) ==
    { [readable |-> TRUE, dates |-> dates, names |-> names, cells |-> c] :
        c \in [1..Len(names) -> [1..Len(dates) -> cellvals]] }

GridsOver(names, ncols, tokens, cellvals) ==
    UNION { GridsOn(names, d, cellvals) : d \in [1..ncols -> tokens] }

\* two staff, blank date tokens and blank cells, a weekday and a weekend day
ShapeGrids ==
    GridsOver(StaffNames, MaxCols,
              {BlankToken, Tok("Mon", 4, "Mar"), Tok("Sat", 9, "Mar")},
              {Blank, "CST"})

\* two staff on one day, every excluded code
CellGrids ==
    GridsOver(StaffNames, 1, {Tok("Mon", 4, "Mar")},
              {Blank, "CST", "HB IC AM", "OFF", "Off", "RL SMO", "FL SMO", "SL", "PDL SMO"})

\* no data row under the three header rows
EmptyGrids == GridsOver(<<>>, MaxCols, {BlankToken, Tok("Mon", 4, "Mar")}, {Blank})

LoadGrids == ShapeGrids \cup CellGrids \cup EmptyGrids \cup {Unreadable}

\* one staff member working every day of a date row of up to MaxTokens tokens;
\* 29-Feb does not exist in 1900 and "Xmas" is no weekday
DateTokens == {Tok("Mon", 30, "Dec"), Tok("Tue", 31, "Dec"), Tok("Wed", 1, "Jan"),
               Tok("Thu", 2, "Jan"), Tok("Thu", 29, "Feb"), Tok("Xmas", 25, "Dec")}

DateGrids ==
    UNION { GridsOver(<<"Alice">>, n, DateTokens, {"CST"}) : n \in 1..MaxTokens }

PreviousFile ==
    [readable |-> TRUE, dates |-> <<Tok("Mon", 4, "Mar")>>,
     names |-> <<"Alice">>, cells |-> <<(<<"CST">>)>>]

Todays == {Day(2024, 12, 15), Day(2025, 12, 15)}

Links == {EmptyUrl, OtherUrl}
            \cup {DriveUrl(id) : id \in (DOMAIN env.files) \cup {"deleted.xlsx"}}

NoHistory == [edited |-> FALSE, imported |-> FALSE]
Start == [page |-> "start"]

\* one run of the Upload File page: the user has picked files in the uploaders,
\* typed a link and perhaps pressed the button
UploadStep(config_files) ==
    \E config_file \in config_files \cup {None},
       uploaded_file \in {[name |-> n] : n \in DOMAIN env.files} \cup {None},
       clicked \in BOOLEAN :
         \E gdrive_link \in (IF clicked THEN Links ELSE {EmptyUrl}) :
            upload_page(config_file, uploaded_file, clicked, gdrive_link)

\* the date range the user picks in st.sidebar.date_input
FilterDates == {Day(2024, 3, 4), Day(2024, 3, 9)}
DateRanges ==
    {r \in FilterDates \X FilterDates : Ordinal(r[1]) <= Ordinal(r[2])}

\* st.sidebar.selectbox: one of the options, None (here Blank) when there is none
Options(S) == IF S = {} THEN {Blank} ELSE S

MainDataStep ==
    IF ~Has(session_state, "df_melted")
    THEN main_data_page(NaT, NaT, Blank, {}, TRUE, TRUE)
    ELSE \E r \in DateRanges :
           LET df_filtered == filter_dates(session_state["df_melted"], r[1], r[2])
           IN  \E selected_name \in Options(Names(df_filtered)) :
                 \E unchecked \in SUBSET Shifts(SelectSeq(df_filtered,
                                        LAMBDA x : x.Name = selected_name)),
                    show_percentage \in BOOLEAN, show_median \in BOOLEAN :
                      main_data_page(r[1], r[2], selected_name, unchecked,
                                     show_percentage, show_median)

\* what the user may type into a number input (min_value=0, max_value=10); an
\* input that is not touched stays at value=st.session_state.get(..., default_val)
HourChoices == {0, 10}

AdminConfigStep ==
    IF ~Has(session_state, "df_melted")
    THEN admin_config_page(<<>>, <<>>)
    ELSE \E include \in [Shifts(session_state["df_melted"]) -> BOOLEAN],
            touched \in SUBSET Shifts(session_state["df_melted"]),
            typed \in [Shifts(session_state["df_melted"]) -> HourChoices] :
            admin_config_page(include,
                [k \in DOMAIN typed |->
                    IF k \in touched THEN typed[k] ELSE get(default_values, k, 0)])

AdminTimeStep ==
    IF ~Has(session_state, "df_melted")
    THEN admin_time_page(NaT, NaT, Blank)
    ELSE \E r \in DateRanges :
           \E selected_name \in
                 Options(Names(filter_dates(session_state["df_melted"], r[1], r[2]))) :
              admin_time_page(r[1], r[2], selected_name)

AdminComparisonStep ==
    IF ~Has(session_state, "df_melted")
    THEN admin_comparison_page(NaT, NaT, {})
    ELSE \E r \in DateRanges :
           \E selected_users \in
                 SUBSET Names(filter_dates(session_state["df_melted"], r[1], r[2])) :
              admin_comparison_page(r[1], r[2], selected_users)

\* loading roster files only
NextLoad == UploadStep({})

InitLoad ==
    /\ session_state = <<>>
    /\ \E g \in LoadGrids :
          env = [files |-> [n \in {"roster.xlsx", "previous.xlsx"} |->
                              IF n = "roster.xlsx" THEN g ELSE PreviousFile],
                 today |-> Day(2024, 12, 15)]
    /\ last = Start
    /\ history = NoHistory

SpecLoad == InitLoad /\ [][NextLoad]_vars

InitDates ==
    /\ session_state = <<>>
    /\ \E g \in DateGrids, today \in Todays :
          env = [files |-> [n \in {"roster.xlsx"} |-> g], today |-> today]
    /\ last = Start
    /\ history = NoHistory

SpecDates == InitDates /\ [][NextLoad]_vars

\* one render of a read-only page over a loaded record set
NextAgg ==
    /\ last.page = "start"
    /\ \/ MainDataStep
       \/ AdminTimeStep
       \/ AdminComparisonStep

AggGrids ==
    GridsOn(StaffNames, <<Tok("Mon", 4, "Mar"), Tok("Sat", 9, "Mar")>>,
            {Blank, "CST", "HB IC AM", "HB AM EDSTTA"})

\* configurations an import or the Admin Configuration page can leave behind
AggConfigs ==
    { [s \in {"CST", "HB AM EDSTTA", "HB IC AM"} |-> IF s = "CST" THEN 10 ELSE 5],
      [s \in {"CST"} |-> 7],
      [s \in {"HB AM EDSTTA", "HB IC AM"} |-> IF s = "HB IC AM" THEN 10 ELSE 2] }

\* the session after a roster has been loaded and, perhaps, a configuration set
InitAgg ==
    /\ \E g \in AggGrids :
          \/ session_state = [df_melted |-> process_file(g).df]
          \/ \E c \in AggConfigs :
                session_state = [df_melted |-> process_file(g).df, admin_config |-> c]
    /\ env = [files |-> <<>>, today |-> Day(2024, 12, 15)]
    /\ last = Start
    /\ history = [edited |-> FALSE, imported |-> Has(session_state, "admin_config")]

SpecAgg == InitAgg /\ [][NextAgg]_vars

\* roster files and configuration files on the user's disk
SessionFiles ==
    [n \in {"alice.xlsx", "team.xlsx", "broken.xlsx"} |->
        IF n = "alice.xlsx"
        THEN [readable |-> TRUE,
              dates |-> <<Tok("Mon", 4, "Mar"), Tok("Sat", 9, "Mar")>>,
              names |-> <<"Alice">>, cells |-> <<(<<"CST", "HB IC AM">>)>>]
        ELSE IF n = "team.xlsx"
        THEN [readable |-> TRUE,
              dates |-> <<Tok("Sat", 9, "Mar")>>,
              names |-> <<"Alice", "Bob">>, cells |-> << <<"MIC">>, <<"OFF">> >>]
        ELSE [readable |-> TRUE,
              dates |-> <<Tok("Mon", 4, "Mar"), BlankToken>>,
              names |-> <<"Alice">>, cells |-> <<(<<"CST", "CST">>)>>]]

ConfigFiles ==
    { [valid |-> TRUE, members |-> <<[key |-> "CST", text |-> <<"7">>]>>],
      [valid |-> TRUE, members |-> <<[key |-> "CST", text |-> <<"1", "1">>],
                                     [key |-> "HB IC AM", text |-> <<"5">>]>>],
      [valid |-> FALSE, members |-> <<>>] }

\* the file the Export Configuration button has just written
Exported ==
    IF last.page = "Admin Configuration" /\ ~last.error THEN {last.config_json} ELSE {}

Init ==
    /\ session_state = <<>>
    /\ env = [files |-> SessionFiles, today |-> Day(2024, 12, 15)]
    /\ last = Start
    /\ history = NoHistory

Next ==
    \/ UploadStep(ConfigFiles \cup Exported)
    \/ MainDataStep
    \/ AdminConfigStep
    \/ AdminTimeStep
    \/ AdminComparisonStep

Spec == Init /\ [][Next]_vars

-----------------------------------------------------------------------------
(* Claims about loading                                                    *)

StoredRecords == session_state["df_melted"]

\* the record set of a session: <<>> when none is stored, else the 1-tuple of it
RecordSet(s) == IF Has(s, "df_melted") THEN <<s["df_melted"]>> ELSE <<>>

\* C1: after any sequence of file loads, by upload or from Google Drive, no
\* record of the stored record set has a Shift among OFF, Off, RL SMO, FL SMO,
\* SL, PDL SMO
C1_ExclusionInvariant ==
    Has(session_state, "df_melted") =>
        \A i \in 1..Len(StoredRecords) :
            StoredRecords[i].Shift \notin
                {"OFF", "Off", "RL SMO", "FL SMO", "SL", "PDL SMO"}

\* a grid with an Off cell and a kept cell has been loaded
C1_Witness ==
    /\ last.page = "Upload File" /\ last.manual = "ok" /\ last.gdrive = "none"
    /\ LET src == Content(last.uploaded_file)
       IN  \E i \in 1..NumRows(src), j \in 1..NumCols(src) : src.cells[i][j] = "Off"
    /\ Len(StoredRecords) > 0

MonthNumber(tok) == CHOOSE k \in 1..12 : MonthAbbr[k] = tok.mon

\* the months of the row never decrease, except once from December to January
\* at column b
BoundaryAt(row, b) ==
    /\ b \in 2..Len(row)
    /\ MonthNumber(row[b - 1]) = 12 /\ MonthNumber(row[b]) = 1
    /\ \A i \in 2..Len(row) :
          i # b => MonthNumber(row[i - 1]) <= MonthNumber(row[i])

\* C2: a date row with a single December-to-January boundary, normalized while
\* today is in December of year Y, resolves to year Y before the boundary and
\* to Y+1 from it on
C2_YearRollover ==
    (/\ last.page = "Upload File" /\ last.manual = "ok" /\ last.gdrive = "none"
     /\ env.today.m = 12)
    => LET row == Content(last.uploaded_file).dates
       IN  \A b \in 2..Len(row) :
             BoundaryAt(row, b) =>
               \A i \in 1..Len(row) :
                 StoredRecords[i].Date =
                    Day(IF i < b THEN env.today.y ELSE env.today.y + 1,
                        MonthNumber(row[i]), row[i].d)

\* the file the Google Drive path of the last run handed to process_file
Fetched(l) == Download(convert_to_direct_url(l.gdrive_link))

\* C8: a load on which process_file fails, on either path, leaves the record
\* set of the session as it was before that load, and a record set is stored
\* only as the result of a process_file that returned
C8_NoPartialPublish ==
    [][last'.page = "Upload File" =>
        LET l == last'
            uploaded == l.uploaded_file # None
            fetched == l.gdrive \in {"ok", "error"}
            sources ==
                (IF uploaded THEN {Content(l.uploaded_file)} ELSE {})
                    \cup (IF fetched THEN {Fetched(l)} ELSE {})
            after_manual ==
                IF uploaded /\ process_file(Content(l.uploaded_file)).ok
                THEN <<process_file(Content(l.uploaded_file)).df>>
                ELSE RecordSet(session_state)
        IN  /\ (uploaded /\ ~process_file(Content(l.uploaded_file)).ok)
                  => RecordSet(session_state') = RecordSet(session_state)
            /\ (fetched /\ ~process_file(Fetched(l)).ok)
                  => RecordSet(session_state') = after_manual
            /\ RecordSet(session_state') # RecordSet(session_state)
                  => \E src \in sources :
                        /\ process_file(src).ok
                        /\ RecordSet(session_state') = <<process_file(src).df>>
    ]_vars

\* a failed load from Google Drive with a record set already in the session
C8_Witness ==
    /\ last.page = "Upload File" /\ last.manual = "none" /\ last.gdrive = "error"
    /\ Has(session_state, "df_melted")

-----------------------------------------------------------------------------
(* Claims about the aggregates                                             *)

\* the calendar of the rosters above: 4 March 2024 is a Monday, 9 March 2024 a
\* Saturday
IsSaturdayOrSunday(date) == date \in {Day(2024, 3, 9), Day(2024, 3, 10)}

Config(s) == IF Has(s, "admin_config") THEN s["admin_config"] ELSE <<>>

\* a is no later than b
NotAfter(a, b) ==
    \/ a.y < b.y
    \/ a.y = b.y /\ a.m < b.m
    \/ a.y = b.y /\ a.m = b.m /\ a.d <= b.d

\* the records the last page has kept of the stored record set
FilteredRecords ==
    SelectSeq(StoredRecords,
              LAMBDA r : NotAfter(last.start_date, r.Date) /\ NotAfter(r.Date, last.end_date))

\* the admin hours of a record as the claims state them
ExpectedHours(r, config) ==
    IF r.Shift \in {"HB AM EDSTTA", "HB IC AM"} /\ IsSaturdayOrSunday(r.Date)
    THEN 0
    ELSE IF r.Shift \in DOMAIN config THEN config[r.Shift] ELSE 0

RECURSIVE SetSum(_, _)
SetSum(f, S) ==
    IF S = {} THEN 0
    ELSE LET x == CHOOSE x \in S : TRUE IN f[x] + SetSum(f, S \ {x})

AdminPage == last.page \in {"Administrative Time", "Admin Comparison"} /\ ~last.error

\* C3: on both admin pages the admin hours of a record are 0 for HB AM EDSTTA
\* and HB IC AM on a Saturday or Sunday whatever the config says, and in every
\* other case config[shift], or 0 when the shift is no key of the config
C3_WeekdayGating ==
    AdminPage =>
        /\ Len(last.AdminHours) = Len(FilteredRecords)
        /\ \A i \in 1..Len(FilteredRecords) :
              last.AdminHours[i] = ExpectedHours(FilteredRecords[i], Config(session_state))

\* a gated shift with configured hours on the Saturday counts 0 and the same
\* shift on the Monday counts its hours
C3_Witness ==
    /\ last.page = "Administrative Time" /\ ~last.error
    /\ "HB AM EDSTTA" \in DOMAIN Config(session_state)
    /\ \E i, j \in 1..Len(FilteredRecords) :
          /\ FilteredRecords[i].Shift = "HB AM EDSTTA"
          /\ FilteredRecords[i].Date = Day(2024, 3, 9)
          /\ Config(session_state)["HB AM EDSTTA"] = 5
          /\ last.AdminHours[i] = 0
          /\ FilteredRecords[j].Shift = "HB AM EDSTTA"
          /\ FilteredRecords[j].Date = Day(2024, 3, 4)
          /\ last.AdminHours[j] = 5

\* C4: the mapping of the Admin Comparison page has exactly the names that own
\* a filtered record, each with 100 * (sum of its admin hours) / (records * 10);
\* no filtered record gives the empty mapping and nothing is NaN
C4_AdminPercentage ==
    (last.page = "Admin Comparison" /\ ~last.error) =>
        LET rows == FilteredRecords
            hours == [i \in 1..Len(rows) |-> ExpectedHours(rows[i], Config(session_state))]
            of(n) == {i \in 1..Len(rows) : rows[i].Name = n}
        IN  /\ DOMAIN last.admin_percentages = {rows[i].Name : i \in 1..Len(rows)}
            /\ \A n \in DOMAIN last.admin_percentages :
                  LET p == last.admin_percentages[n]
                  IN  /\ p.den > 0
                      /\ p.num * (Cardinality(of(n)) * 10) = 100 * SetSum(hours, of(n)) * p.den
            /\ (rows = <<>> => last.admin_percentages = <<>>)

\* two staff are compared and one of them has three quarters of admin time
C4_Witness ==
    /\ last.page = "Admin Comparison" /\ ~last.error
    /\ Cardinality(DOMAIN last.admin_percentages) = 2
    /\ \E n \in DOMAIN last.admin_percentages :
          last.admin_percentages[n] = [num |-> 75, den |-> 1]

\* C5: the all-staff median of a shift is the median, over every staff member
\* of the roster, of that member's count of the shift, a member without the
\* shift among the filtered records counting 0
C5_MedianZeroFill ==
    (last.page = "Main Data" /\ ~last.error /\ last.show_median /\ ~last.show_percentage) =>
        LET rows == FilteredRecords
            roster == Names(StoredRecords)
        IN  \A s \in last.active_shifts :
              last.charts.median_shift_counts[s] =
                  median(roster,
                         [n \in roster |->
                             Cardinality({i \in 1..Len(rows) :
                                            rows[i].Name = n /\ rows[i].Shift = s})])

-----------------------------------------------------------------------------
(* Claims about the session                                                *)

\* C6: after a configuration file has been imported, every value of the admin
\* config of the session is an integer in [0,10]
C6_ImportValidated ==
    (last.page = "Upload File" /\ last.imported) =>
        \A k \in DOMAIN session_state["admin_config"] :
            session_state["admin_config"][k] \in 0..10

\* C7: importing the file the Admin Configuration page has just exported makes
\* the admin config of the session the config that was exported
C7_RoundTrip ==
    [][(/\ last.page = "Admin Configuration" /\ ~last.error
        /\ last'.page = "Upload File"
        /\ last'.config_file = last.config_json)
       => /\ last'.imported
          /\ Has(session_state', "admin_config")
          /\ session_state'["admin_config"] = last.admin_config
          /\ \A k \in DOMAIN last.admin_config : last.admin_config[k] \in 0..10
    ]_vars

\* an exported config with a disabled shift and a two-digit value is back
C7_Witness ==
    /\ last.page = "Upload File" /\ last.imported
    /\ last.config_file.members =
          <<[key |-> "CST", text |-> <<"1", "0">>],
            [key |-> "HB IC AM", text |-> <<"0">>]>>
    /\ session_state["admin_config"] =
          [k \in {"CST", "HB IC AM"} |-> IF k = "CST" THEN 10 ELSE 0]

\* C9: with a record set loaded and no config edited or imported, both admin
\* pages compute the admin hours from the built-in default table
C9_DefaultConfig ==
    (AdminPage /\ ~history.edited /\ ~history.imported) =>
        /\ Len(last.AdminHours) = Len(FilteredRecords)
        /\ \A i \in 1..Len(FilteredRecords) :
              last.AdminHours[i] =
                ExpectedHours(FilteredRecords[i],
                              [k \in {"CST", "HB IC PM", "HB 21C PM", "MIC",
                                      "HB AM EDSTTA", "HB IC AM"} |->
                                  IF k = "CST" THEN 10
                                  ELSE IF k \in {"HB IC PM", "HB 21C PM"} THEN 3 ELSE 5])

\* the file a Google Drive load of the last run stored, if it stored one
Loaded(l) ==
    (IF l.manual = "ok" THEN {Content(l.uploaded_file)} ELSE {})
        \cup (IF l.gdrive = "ok" THEN {Fetched(l)} ELSE {})

\* C10: rendering Main Data, Admin Configuration, Administrative Time or Admin
\* Comparison leaves the record set as it is; the record set changes only by
\* being replaced by the result of a successful load; a load leaves the admin
\* config as it is
C10_ReadOnlyRecordSet ==
    [][/\ last'.page \in {"Main Data", "Admin Configuration", "Administrative Time",
                          "Admin Comparison"}
          => RecordSet(session_state') = RecordSet(session_state)
       /\ RecordSet(session_state') # RecordSet(session_state)
          => /\ last'.page = "Upload File"
             /\ \E src \in Loaded(last') :
                   /\ process_file(src).ok
                   /\ RecordSet(session_state') = <<process_file(src).df>>
       /\ (last'.page = "Upload File" /\ ~last'.imported)
          => /\ Has(session_state', "admin_config") = Has(session_state, "admin_config")
             /\ Config(session_state') = Config(session_state)
    ]_vars

\* a second roster has replaced the first while a config was set, and a page
\* has been rendered over it with a shift unchecked
C10_Witness ==
    /\ last.page = "Main Data" /\ ~last.error
    /\ last.active_shifts = {"CST"}
    /\ last.show_percentage /\ ~last.show_median
    /\ Has(session_state, "admin_config")
    /\ Len(StoredRecords) = 2

-----------------------------------------------------------------------------
(* Claims about the columns of the grid                                    *)

\* the grid whose records the last Upload run has stored: the Google Drive
\* load comes after the manual one
LastLoaded(l) == IF l.gdrive = "ok" THEN Fetched(l) ELSE Content(l.uploaded_file)

\* C11: every record of an accepted grid carries the date resolved from the
\* date token of the grid column its shift cell stands in, also when the grid
\* has columns without a data cell or columns without a date token (the
\* rosters loaded here lie within 2024)
C11_ColumnAlignment ==
    (last.page = "Upload File" /\ (last.manual = "ok" \/ last.gdrive = "ok")) =>
        LET src == LastLoaded(last)
        IN  \A k \in 1..Len(StoredRecords) :
              \E i \in 1..NumRows(src), j \in 1..NumCols(src) :
                  /\ src.names[i] = StoredRecords[k].Name
                  /\ src.cells[i][j] = StoredRecords[k].Shift
                  /\ src.dates[j] # BlankToken
                  /\ StoredRecords[k].Date =
                        Day(2024, MonthNumber(src.dates[j]), src.dates[j].d)

====
